---------------------------- MODULE Spec2Model ----------------------------
(***************************************************************************)
(* Model of the AI kitchen-design route handler                            *)
(* (src/app/api/ai-design-visual/route.ts): the POST handler with its      *)
(* validation, the analyze path, the generate path with its per-variation  *)
(* loop, and the pure helpers it calls (design-variation builder, lookup   *)
(* tables, cost estimator, image-prompt composer, analysis extractors).    *)
(*                                                                         *)
(* JavaScript values are modelled as follows.  A string is a TLA+ string.  *)
(* An array is a sequence.  A JSON object is a record; a property the      *)
(* object lacks is a field outside the record's DOMAIN.  A call that may   *)
(* throw returns Ok(v) or Throw.                                           *)
(***************************************************************************)
EXTENDS Integers, Sequences, FiniteSets, TLC

(***************************************************************************)
(* JavaScript helpers                                                      *)
(***************************************************************************)

\* A completed call: its value, or an exception.
Ok(v) == [ok |-> TRUE, v |-> v]

Throw == [ok |-> FALSE]

\* String.prototype.includes
Includes(s, sub) ==
  \E i \in 1..(Len(s) - Len(sub) + 1) : SubSeq(s, i, i + Len(sub) - 1) = sub

\* String.prototype.toUpperCase on one character
UpperChar(c) ==
  CASE c = "a" -> "A" [] c = "b" -> "B" [] c = "c" -> "C" [] c = "d" -> "D"
    [] c = "e" -> "E" [] c = "f" -> "F" [] c = "g" -> "G" [] c = "h" -> "H"
    [] c = "i" -> "I" [] c = "j" -> "J" [] c = "k" -> "K" [] c = "l" -> "L"
    [] c = "m" -> "M" [] c = "n" -> "N" [] c = "o" -> "O" [] c = "p" -> "P"
    [] c = "q" -> "Q" [] c = "r" -> "R" [] c = "s" -> "S" [] c = "t" -> "T"
    [] c = "u" -> "U" [] c = "v" -> "V" [] c = "w" -> "W" [] c = "x" -> "X"
    [] c = "y" -> "Y" [] c = "z" -> "Z" [] OTHER -> c

\* String.prototype.toLowerCase on one character
LowerChar(c) ==
  CASE c = "A" -> "a" [] c = "B" -> "b" [] c = "C" -> "c" [] c = "D" -> "d"
    [] c = "E" -> "e" [] c = "F" -> "f" [] c = "G" -> "g" [] c = "H" -> "h"
    [] c = "I" -> "i" [] c = "J" -> "j" [] c = "K" -> "k" [] c = "L" -> "l"
    [] c = "M" -> "m" [] c = "N" -> "n" [] c = "O" -> "o" [] c = "P" -> "p"
    [] c = "Q" -> "q" [] c = "R" -> "r" [] c = "S" -> "s" [] c = "T" -> "t"
    [] c = "U" -> "u" [] c = "V" -> "v" [] c = "W" -> "w" [] c = "X" -> "x"
    [] c = "Y" -> "y" [] c = "Z" -> "z" [] OTHER -> c

RECURSIVE ToLowerCase(_)
ToLowerCase(s) ==
  IF Len(s) = 0 THEN ""
  ELSE LowerChar(SubSeq(s, 1, 1)) \o ToLowerCase(SubSeq(s, 2, Len(s)))

\* Array.prototype.join
RECURSIVE Join(_, _)
Join(list, sep) ==
  IF Len(list) = 0 THEN ""
  ELSE IF Len(list) = 1 THEN list[1]
  ELSE list[1] \o sep \o Join(Tail(list), sep)

\* Array.prototype.slice(0, n)
SliceFirst(list, n) == SubSeq(list, 1, IF Len(list) < n THEN Len(list) ELSE n)

\* The properties every object literal inherits from Object.prototype: a
\* lookup obj[key] with one of these keys finds the inherited property (a
\* function or an object, truthy), not undefined.
ObjectPrototypeKeys ==
  { "constructor", "__proto__", "hasOwnProperty", "isPrototypeOf",
    "propertyIsEnumerable", "toLocaleString", "toString", "valueOf",
    "__defineGetter__", "__defineSetter__", "__lookupGetter__",
    "__lookupSetter__" }

\* A property read on a preferences object: the value, or undefined.
Has(obj, field) == field \in DOMAIN obj

(***************************************************************************)
(* Lookup tables of the design-variation builder                           *)
(***************************************************************************)

Tiers == <<"primary", "enhanced", "value">>

capitalizeFirst(str) ==
  IF Len(str) = 0 THEN ""
  ELSE UpperChar(SubSeq(str, 1, 1)) \o SubSeq(str, 2, Len(str))

CabinetStyles ==
  [ contemporary |->
      [ primary |-> "Flat-panel doors with sleek brushed hardware",
        enhanced |-> "Handleless flat-panel with integrated pulls and soft-close",
        value |-> "Clean flat-panel with modern hardware" ],
    traditional |->
      [ primary |-> "Raised-panel doors with classic brass hardware",
        enhanced |-> "Detailed raised-panel with crown molding and premium finishes",
        value |-> "Simple raised-panel with traditional pulls" ],
    transitional |->
      [ primary |-> "Shaker-style doors with brushed nickel hardware",
        enhanced |-> "Premium Shaker with soft-close mechanisms and custom details",
        value |-> "Classic Shaker with standard hardware" ],
    modern |->
      [ primary |-> "Ultra-flat doors with minimal linear hardware",
        enhanced |-> "Integrated handle-less design with push-to-open",
        value |-> "Simple flat doors with sleek pulls" ],
    farmhouse |->
      [ primary |-> "Beadboard doors with rustic bronze hardware",
        enhanced |-> "Detailed farmhouse with decorative elements and vintage accents",
        value |-> "Simple farmhouse style with classic pulls" ],
    scandinavian |->
      [ primary |-> "Light wood doors with minimal black hardware",
        enhanced |-> "Premium wood grain with integrated handles and natural finishes",
        value |-> "Natural wood with simple hardware" ],
    industrial |->
      [ primary |-> "Metal-accented doors with industrial black hardware",
        enhanced |-> "Mixed materials with exposed elements and custom metalwork",
        value |-> "Industrial-inspired with metal accents" ] ]

\* styles[style]?.[tier] || "Custom cabinet style".  An inherited property
\* (styles["constructor"]) has no own tier property, so the chain is
\* undefined and the fallback is taken.
getCabinetStyle(style, tier) ==
  IF style \in DOMAIN CabinetStyles /\ tier \in DOMAIN CabinetStyles[style]
  THEN CabinetStyles[style][tier]
  ELSE "Custom cabinet style"

ColorPalettes ==
  [ x \in { "light-neutral", "dark-dramatic", "warm-wood", "two-tone", "bold-colors" } |->
      CASE x = "light-neutral" ->
             [ primary |-> "Crisp whites with warm gray accents and quartz counters",
               enhanced |-> "Premium whites with marble-inspired veining and gold accents",
               value |-> "Clean whites with subtle gray undertones" ]
        [] x = "dark-dramatic" ->
             [ primary |-> "Deep charcoal with contrasting light quartz counters",
               enhanced |-> "Rich navy with brass accent hardware and marble backsplash",
               value |-> "Dark gray with white contrast elements" ]
        [] x = "warm-wood" ->
             [ primary |-> "Natural oak with complementary earth tones and granite",
               enhanced |-> "Premium walnut with brass accents and natural stone",
               value |-> "Warm maple with classic finishes" ]
        [] x = "two-tone" ->
             [ primary |-> "White uppers with gray lowers and coordinated hardware",
               enhanced |-> "Contrasting island with premium coordinated colors and finishes",
               value |-> "Simple two-tone with balanced contrast" ]
        [] x = "bold-colors" ->
             [ primary |-> "Custom color with neutral balance and modern accents",
               enhanced |-> "Rich color with premium accent materials and designer touches",
               value |-> "Tasteful color with classic combinations" ] ]

\* palettes[colorPref]?.[tier] || "Custom color palette designed for your space"
getColorPalette(colorPref, tier) ==
  IF colorPref \in DOMAIN ColorPalettes /\ tier \in DOMAIN ColorPalettes[colorPref]
  THEN ColorPalettes[colorPref][tier]
  ELSE "Custom color palette designed for your space"

KeyFeatures ==
  [ primary |->
      << "Soft-close doors and drawers", "Under-cabinet LED lighting",
         "Quartz countertops", "Custom storage solutions",
         "Premium hardware finishes", "Professional installation" >>,
    enhanced |->
      << "Premium soft-close mechanisms", "Integrated LED lighting system",
         "Luxury quartz with waterfall edge", "Advanced storage organization",
         "Designer hardware collection", "Built-in charging stations",
         "Custom crown molding" >>,
    value |->
      << "Quality soft-close hinges", "LED under-cabinet strips",
         "Durable quartz surfaces", "Efficient storage design",
         "Stylish hardware selection", "Professional installation" >> ]

\* baseFeatures[tier] || baseFeatures.primary (style, storage, cooking unused)
getKeyFeatures(style, storage, cooking, tier) ==
  IF tier \in DOMAIN KeyFeatures THEN KeyFeatures[tier] ELSE KeyFeatures["primary"]

DefaultLayoutOptimization ==
  << "Improved workflow efficiency", "Optimized storage placement",
     "Enhanced counter workspace" >>

\* Variant of getLayoutOptimization: the tier phrases are added for every
\* tier other than "primary".
getLayoutOptimizationNonPrimary(cooking, storage, tier) ==
  LET o1 == IF Includes(cooking, "daily") \/ Includes(cooking, "frequent")
            THEN << "Optimized work triangle for efficient cooking",
                    "Multiple prep areas for complex meals" >>
            ELSE << >>
      o2 == IF Includes(cooking, "entertainer")
            THEN << "Open layout for social cooking and entertaining",
                    "Extended counter space for serving guests" >>
            ELSE << >>
      o3 == IF Includes(storage, "maximum")
            THEN << "Floor-to-ceiling storage maximization",
                    "Corner cabinet optimization with lazy susans" >>
            ELSE << >>
      o4 == IF tier # "primary"
            THEN << "Smart appliance integration zones",
                    "Hidden storage solutions and secret compartments" >>
            ELSE << >>
      optimizations == o1 \o o2 \o o3 \o o4
  IN  IF Len(optimizations) > 0 THEN optimizations
      ELSE << "Improved workflow efficiency", "Optimized storage placement",
              "Enhanced counter workspace" >>

\* cooking and storage are strings here: the caller has checked that.
getLayoutOptimization(cooking, storage, tier) ==
  LET o1 == IF Includes(cooking, "daily") \/ Includes(cooking, "frequent")
            THEN << "Optimized work triangle for efficient cooking",
                    "Multiple prep areas for complex meals" >>
            ELSE << >>
      o2 == IF Includes(cooking, "entertainer")
            THEN << "Open layout for social cooking and entertaining",
                    "Extended counter space for serving guests" >>
            ELSE << >>
      o3 == IF Includes(storage, "maximum")
            THEN << "Floor-to-ceiling storage maximization",
                    "Corner cabinet optimization with lazy susans" >>
            ELSE << >>
      o4 == IF tier = "enhanced"
            THEN << "Smart appliance integration zones",
                    "Hidden storage solutions and secret compartments" >>
            ELSE << >>
      optimizations == o1 \o o2 \o o3 \o o4
  IN  IF Len(optimizations) > 0 THEN optimizations ELSE DefaultLayoutOptimization

StorageFeatures ==
  [ x \in { "maximum-storage", "organized-storage", "display-storage",
            "hidden-storage", "pantry-storage" } |->
      CASE x = "maximum-storage" ->
             << "Floor-to-ceiling cabinets with crown molding",
                "Deep drawer systems with full extension slides",
                "Corner cabinet solutions with lazy susans",
                "Pantry organization systems with pull-out shelves" >>
        [] x = "organized-storage" ->
             << "Pull-out drawer organizers with dividers",
                "Spice rack systems and condiment storage",
                "Divided storage compartments for utensils",
                "Lazy Susan corner units for easy access" >>
        [] x = "display-storage" ->
             << "Glass-front upper cabinets with interior lighting",
                "Open shelving displays for decorative items",
                "Wine storage features and glass racks",
                "Decorative storage elements and display niches" >>
        [] x = "hidden-storage" ->
             << "Integrated appliance panels for seamless look",
                "Hidden storage compartments and secret drawers",
                "Seamless cabinet integration with walls",
                "Concealed organization systems behind doors" >>
        [] x = "pantry-storage" ->
             << "Walk-in pantry design with custom shelving",
                "Pull-out pantry systems with wire baskets",
                "Food storage organization with clear containers",
                "Bulk storage solutions for Calgary families" >> ]

GenericStorageFeatures ==
  << "Custom storage solutions tailored to your needs",
     "Organized cabinet interiors with adjustable shelves",
     "Efficient space utilization for Calgary homes",
     "Quality storage hardware with lifetime warranty" >>

EnhancedStorageExtras ==
  << "Smart storage technology integration",
     "Premium organization systems with soft-close" >>

\* A JavaScript array value, and a value inherited from Object.prototype
\* (a function such as Object or toString, or the prototype object itself):
\* truthy, and neither an array nor iterable.
JSArray(list) == [t |-> "array", v |-> list]

JSInherited(key) == [t |-> "inherited", key |-> key]

\* features[storage] || [generic list]
StorageBaseFeatures(storage) ==
  IF storage \in DOMAIN StorageFeatures THEN JSArray(StorageFeatures[storage])
  ELSE IF storage \in ObjectPrototypeKeys THEN JSInherited(storage)
  ELSE JSArray(GenericStorageFeatures)

\* The call's completion: for tier "enhanced" the base value is spread into a
\* new array, which throws a TypeError when the base value is not iterable;
\* for the other tiers the base value is returned as it is.
getStorageFeatures(storage, tier) ==
  LET baseFeatures == StorageBaseFeatures(storage)
  IN  IF tier = "enhanced"
      THEN IF baseFeatures.t = "array"
           THEN Ok(JSArray(baseFeatures.v \o EnhancedStorageExtras))
           ELSE Throw
      ELSE Ok(baseFeatures)

(***************************************************************************)
(* Cost estimator                                                          *)
(***************************************************************************)

BudgetMultipliers ==
  [ x \in { "25k-40k", "40k-60k", "60k-80k", "80k-100k", "100k-plus" } |->
      CASE x = "25k-40k" -> [min |-> 25000, max |-> 40000]
        [] x = "40k-60k" -> [min |-> 40000, max |-> 60000]
        [] x = "60k-80k" -> [min |-> 60000, max |-> 80000]
        [] x = "80k-100k" -> [min |-> 80000, max |-> 100000]
        [] x = "100k-plus" -> [min |-> 100000, max |-> 150000] ]

DefaultBudget == [min |-> 35000, max |-> 50000]

\* The multipliers 0.85, 1.0 and 1.25, in hundredths.
ComplexityMultipliers == [standard |-> 85, high |-> 100, premium |-> 125]

\* Math.round(amount * multiplier): the nearest integer, halves upwards.
RoundTimes(amount, hundredths) == (amount * hundredths * 2 + 100) \div 200

DigitString(d) == SubSeq("0123456789", d + 1, d + 1)

RECURSIVE DecimalString(_)
DecimalString(n) ==
  IF n < 10 THEN DigitString(n)
  ELSE DecimalString(n \div 10) \o DigitString(n % 10)

\* Number.prototype.toLocaleString() of a non-negative integer in the
\* default (en-US) locale: groups of three digits separated by commas.
RECURSIVE ToLocaleString(_)
ToLocaleString(n) ==
  IF n < 1000 THEN DecimalString(n)
  ELSE ToLocaleString(n \div 1000) \o ","
         \o DigitString((n % 1000) \div 100)
         \o DigitString((n % 100) \div 10)
         \o DigitString(n % 10)

\* The bracket and the multiplier calculateCost uses, and its two rounded
\* amounts.  A budgetRange that names a property inherited from
\* Object.prototype finds that property (truthy), whose min and max are
\* undefined: the amounts are NaN.
CostBudget(budgetRange) ==
  IF budgetRange \in DOMAIN BudgetMultipliers THEN BudgetMultipliers[budgetRange]
  ELSE DefaultBudget

CostMultiplier(complexity) ==
  IF complexity \in DOMAIN ComplexityMultipliers THEN ComplexityMultipliers[complexity]
  ELSE 100

CostAmounts(budgetRange, complexity) ==
  [ min |-> RoundTimes(CostBudget(budgetRange).min, CostMultiplier(complexity)),
    max |-> RoundTimes(CostBudget(budgetRange).max, CostMultiplier(complexity)) ]

\* Whether the two amounts are NaN: the bracket or the multiplier found is a
\* property inherited from Object.prototype (bracket.min is undefined, or the
\* multiplier is a function or an object), and the product is not a number.
CostIsNaN(budgetRange, complexity) ==
  \/ budgetRange \in ObjectPrototypeKeys \ DOMAIN BudgetMultipliers
  \/ complexity \in ObjectPrototypeKeys \ DOMAIN ComplexityMultipliers

calculateCost(budgetRange, complexity) ==
  IF CostIsNaN(budgetRange, complexity)
  THEN "$NaN - $NaN CAD"
  ELSE "$" \o ToLocaleString(CostAmounts(budgetRange, complexity).min)
         \o " - $" \o ToLocaleString(CostAmounts(budgetRange, complexity).max)
         \o " CAD"

(***************************************************************************)
(* Preferences, and the design-variation builder                           *)
(***************************************************************************)

\* A property of the preferences object where it is turned into a string (a
\* template literal, a property key): a missing property reads "undefined".
Prop(obj, field) == IF Has(obj, field) THEN obj[field] ELSE "undefined"

\* Variant of Variation: the value variation reads the primary tier's
\* cabinet style.
VariationValueFromPrimary(preferences, k) ==
  LET baseStyle == preferences.kitchenStyle
      tier == Tiers[k]
  IN  [ name |-> "Custom " \o capitalizeFirst(baseStyle) \o " Design",
        description |-> "",
        cabinetStyle |-> getCabinetStyle(baseStyle, IF k = 3 THEN "primary" ELSE tier),
        colorPalette |-> getColorPalette(Prop(preferences, "colorPreference"), tier),
        keyFeatures |-> getKeyFeatures(baseStyle, preferences.storageNeeds,
                                       preferences.cookingHabits, tier),
        timeline |->
          CASE k = 1 -> "10-12 weeks" [] k = 2 -> "12-14 weeks" [] k = 3 -> "8-10 weeks",
        complexity |->
          CASE k = 1 -> "high" [] k = 2 -> "premium" [] k = 3 -> "standard",
        whyThisWorks |-> "",
        layoutOptimization |->
          getLayoutOptimization(preferences.cookingHabits, preferences.storageNeeds, tier),
        storageFeatures |-> getStorageFeatures(preferences.storageNeeds, tier).v.v ]

\* One variation of createDesignVariations, for position k of Tiers.
\* getLayoutOptimization is called without a tier for the primary variation:
\* its parameter defaults to "primary".
Variation(preferences, k) ==
  LET baseStyle == preferences.kitchenStyle
      colorPref == Prop(preferences, "colorPreference")
      storage == preferences.storageNeeds
      cooking == preferences.cookingHabits
      tier == Tiers[k]
  IN  [ name |->
          CASE k = 1 -> "Custom " \o capitalizeFirst(baseStyle) \o " Design"
            [] k = 2 -> "Premium " \o capitalizeFirst(baseStyle) \o " Collection"
            [] k = 3 -> "Smart " \o capitalizeFirst(baseStyle) \o " Value",
        description |->
          CASE k = 1 -> "A personalized " \o baseStyle
                          \o " kitchen designed specifically for your Calgary home, cooking style, and storage needs."
            [] k = 2 -> "An elevated version of your preferred style with luxury features and enhanced functionality for the discerning Calgary homeowner."
            [] k = 3 -> "A cost-effective approach to your preferred style without compromising on Urban Woodspace quality or functionality.",
        cabinetStyle |-> getCabinetStyle(baseStyle, tier),
        colorPalette |-> getColorPalette(colorPref, tier),
        keyFeatures |-> getKeyFeatures(baseStyle, storage, cooking, tier),
        timeline |->
          CASE k = 1 -> "10-12 weeks" [] k = 2 -> "12-14 weeks" [] k = 3 -> "8-10 weeks",
        complexity |->
          CASE k = 1 -> "high" [] k = 2 -> "premium" [] k = 3 -> "standard",
        whyThisWorks |->
          CASE k = 1 -> "This design perfectly matches your " \o baseStyle
                          \o " style preference while optimizing for your " \o cooking
                          \o " cooking habits and " \o storage
                          \o " storage needs. Perfect for Calgary's lifestyle."
            [] k = 2 -> "This premium design builds on your style preferences with luxury materials and advanced storage solutions for the ultimate Calgary kitchen experience."
            [] k = 3 -> "This design delivers your desired " \o baseStyle
                          \o " aesthetic with smart material choices and efficient layouts that maximize value for Calgary families.",
        layoutOptimization |-> getLayoutOptimization(cooking, storage, tier),
        storageFeatures |-> getStorageFeatures(storage, tier).v.v ]

\* The builder's completion.  It throws a TypeError when kitchenStyle is
\* missing (capitalizeFirst calls charAt on undefined), when cookingHabits or
\* storageNeeds is missing (getLayoutOptimization calls includes on
\* undefined), and when getStorageFeatures throws.
createDesignVariations(preferences) ==
  IF \/ ~Has(preferences, "kitchenStyle")
     \/ ~Has(preferences, "cookingHabits")
     \/ ~Has(preferences, "storageNeeds")
  THEN Throw
  ELSE IF \E k \in 1..Len(Tiers) : ~getStorageFeatures(preferences.storageNeeds, Tiers[k]).ok
  THEN Throw
  ELSE Ok([k \in 1..Len(Tiers) |-> Variation(preferences, k)])

(***************************************************************************)
(* Image-prompt composer                                                   *)
(***************************************************************************)

StyleClause(style) ==
  CASE style = "contemporary" ->
         "Clean lines, flat-panel cabinets, minimalist design with sleek hardware and modern appliances. "
    [] style = "traditional" ->
         "Classic raised-panel cabinets, elegant details, timeless design with traditional hardware and warm finishes. "
    [] style = "transitional" ->
         "Shaker-style cabinets blending traditional and modern elements with versatile hardware. "
    [] style = "modern" ->
         "Ultra-modern design with handleless cabinets, cutting-edge features, and minimalist aesthetics. "
    [] style = "farmhouse" ->
         "Rustic farmhouse charm with beadboard details, vintage-inspired elements, and cozy warmth. "
    [] style = "scandinavian" ->
         "Light wood tones, natural materials, bright and airy Scandinavian design with clean lines. "
    [] style = "industrial" ->
         "Industrial aesthetic with metal accents, urban design elements, and modern functionality. "
    [] OTHER -> ""

\* Variant of PromptClauses: the storage features are joined without the
\* slice(0, 3).
PromptClausesUnsliced(design, preferences) ==
  LET style == Prop(preferences, "kitchenStyle")
      cooking == preferences.cookingHabits
      family == preferences.familySize
  IN  << "A stunning, photorealistic 3D rendering of a " \o style
           \o " kitchen design for Urban Woodspace Calgary. ",
         StyleClause(style),
         "Color scheme: " \o design.colorPalette \o ". ",
         IF Includes(cooking, "daily") \/ Includes(cooking, "frequent")
         THEN "Efficient work triangle layout with multiple prep areas and professional-grade workflow. "
         ELSE "",
         IF Includes(cooking, "entertainer")
         THEN "Open layout perfect for entertaining with large island and social cooking areas. "
         ELSE "",
         IF Includes(family, "large")
         THEN "Spacious design accommodating large family needs with ample storage and workspace. "
         ELSE "",
         design.cabinetStyle
           \o ". Premium quartz countertops, under-cabinet LED lighting, high-end stainless steel appliances. ",
         "Storage features: " \o Join(design.storageFeatures, ", ") \o ". ",
         "Designed for Calgary homes with practical storage for winter gear and seasonal items. ",
         "Professional architectural photography style, perfect natural lighting, 4K quality, hyperrealistic rendering. The kitchen should look like a high-end interior design magazine photo with perfect staging, warm lighting, and inviting atmosphere. Show the space as lived-in and welcoming for a Calgary family." >>

\* The pieces createImagePrompt appends to the prompt, in the order it
\* appends them; a piece that is not appended is the empty string.
\* cookingHabits and familySize are strings here.
PromptClauses(design, preferences) ==
  LET style == Prop(preferences, "kitchenStyle")
      cooking == preferences.cookingHabits
      family == preferences.familySize
  IN  << "A stunning, photorealistic 3D rendering of a " \o style
           \o " kitchen design for Urban Woodspace Calgary. ",
         StyleClause(style),
         "Color scheme: " \o design.colorPalette \o ". ",
         IF Includes(cooking, "daily") \/ Includes(cooking, "frequent")
         THEN "Efficient work triangle layout with multiple prep areas and professional-grade workflow. "
         ELSE "",
         IF Includes(cooking, "entertainer")
         THEN "Open layout perfect for entertaining with large island and social cooking areas. "
         ELSE "",
         IF Includes(family, "large")
         THEN "Spacious design accommodating large family needs with ample storage and workspace. "
         ELSE "",
         design.cabinetStyle
           \o ". Premium quartz countertops, under-cabinet LED lighting, high-end stainless steel appliances. ",
         "Storage features: " \o Join(SliceFirst(design.storageFeatures, 3), ", ") \o ". ",
         "Designed for Calgary homes with practical storage for winter gear and seasonal items. ",
         "Professional architectural photography style, perfect natural lighting, 4K quality, hyperrealistic rendering. The kitchen should look like a high-end interior design magazine photo with perfect staging, warm lighting, and inviting atmosphere. Show the space as lived-in and welcoming for a Calgary family." >>

\* The composer's completion: it throws a TypeError when cookingHabits or
\* familySize is missing (includes is called on undefined).
createImagePrompt(design, preferences) ==
  IF ~Has(preferences, "cookingHabits") \/ ~Has(preferences, "familySize")
  THEN Throw
  ELSE Ok(Join(PromptClauses(design, preferences), ""))

(***************************************************************************)
(* Analysis extractors.  An analysis text is the sequence of its lines     *)
(* (text.split("\n")); a keyword holds no line break, so the text includes *)
(* it exactly when one of its lines does.                                  *)
(***************************************************************************)

RECURSIVE TrimStart(_)
TrimStart(s) ==
  IF Len(s) > 0 /\ SubSeq(s, 1, 1) = " " THEN TrimStart(SubSeq(s, 2, Len(s))) ELSE s

RECURSIVE TrimEnd(_)
TrimEnd(s) ==
  IF Len(s) > 0 /\ SubSeq(s, Len(s), Len(s)) = " "
  THEN TrimEnd(SubSeq(s, 1, Len(s) - 1)) ELSE s

\* String.prototype.trim
Trim(s) == TrimEnd(TrimStart(s))

IncludesAny(s, keywords) == \E kw \in keywords : Includes(s, kw)

\* text.toLowerCase().includes(keyword)
TextIncludes(text, keyword) ==
  \E i \in 1..Len(text) : Includes(ToLowerCase(text[i]), keyword)

ExtractKeywords(type) ==
  CASE type = "dimensions" -> { "dimension", "size", "feet", "'", "x" }
    [] type = "layout" -> { "layout", "galley", "l-shaped", "u-shaped", "island" }
    [] type = "lighting" -> { "light", "window", "bright" }
    [] OTHER -> { }

\* The first lower-cased line that includes a keyword of the type, trimmed;
\* the empty string stands for null (both are falsy at the caller's ||).
extractFromAnalysis(text, type) ==
  LET hits == { i \in 1..Len(text) : IncludesAny(ToLowerCase(text[i]), ExtractKeywords(type)) }
  IN  IF hits = { } THEN ""
      ELSE Trim(ToLowerCase(text[CHOOSE i \in hits : \A j \in hits : i <= j]))

OrElse(value, fallback) == IF value = "" THEN fallback ELSE value

\* Variant of extractFeatures: the list is returned without the fallback.
extractFeaturesNoFallback(text) ==
  (IF TextIncludes(text, "window") THEN << "Natural lighting from windows" >> ELSE << >>)
  \o (IF TextIncludes(text, "ceiling") THEN << "Standard ceiling height" >> ELSE << >>)
  \o (IF TextIncludes(text, "floor") THEN << "Existing flooring" >> ELSE << >>)
  \o (IF TextIncludes(text, "door") THEN << "Door access points" >> ELSE << >>)

extractFeatures(text) ==
  LET features ==
        (IF TextIncludes(text, "window") THEN << "Natural lighting from windows" >> ELSE << >>)
        \o (IF TextIncludes(text, "ceiling") THEN << "Standard ceiling height" >> ELSE << >>)
        \o (IF TextIncludes(text, "floor") THEN << "Existing flooring" >> ELSE << >>)
        \o (IF TextIncludes(text, "door") THEN << "Door access points" >> ELSE << >>)
  IN  IF Len(features) > 0 THEN features
      ELSE << "Natural lighting", "Standard ceiling height", "Existing flooring" >>

extractChallenges(text) ==
  LET challenges ==
        (IF TextIncludes(text, "small") \/ TextIncludes(text, "limited")
         THEN << "Limited space optimization" >> ELSE << >>)
        \o (IF TextIncludes(text, "old") \/ TextIncludes(text, "dated")
            THEN << "Outdated design elements" >> ELSE << >>)
        \o (IF TextIncludes(text, "storage") THEN << "Insufficient storage" >> ELSE << >>)
        \o (IF TextIncludes(text, "light") THEN << "Lighting improvements needed" >> ELSE << >>)
  IN  IF Len(challenges) > 0 THEN challenges
      ELSE << "Space optimization needed", "Storage improvements", "Lighting updates" >>

extractOpportunities(text) ==
  << "Maximize vertical storage with tall cabinets",
     "Improve workflow with optimized layout",
     "Add modern lighting solutions",
     "Create more counter workspace",
     "Enhance storage organization" >>

extractArchitectural(text) ==
  << "Standard wall construction", "Existing flooring", "Window placement", "Door locations" >>

extractRecommendedStyles(text) ==
  LET styles ==
        (IF TextIncludes(text, "modern") \/ TextIncludes(text, "contemporary")
         THEN << "Contemporary" >> ELSE << >>)
        \o (IF TextIncludes(text, "traditional") \/ TextIncludes(text, "classic")
            THEN << "Traditional" >> ELSE << >>)
        \o (IF TextIncludes(text, "transitional") THEN << "Transitional" >> ELSE << >>)
        \o (IF TextIncludes(text, "farmhouse") \/ TextIncludes(text, "rustic")
            THEN << "Farmhouse" >> ELSE << >>)
  IN  IF Len(styles) > 0 THEN styles
      ELSE << "Contemporary", "Traditional", "Transitional" >>

extractOptimization(text) ==
  << "Optimize work triangle efficiency", "Maximize storage capacity",
     "Improve traffic flow", "Enhance natural lighting" >>

\* The spaceAnalysis object the analyze path builds from the analysis text.
SpaceAnalysis(analysisText) ==
  [ roomDimensions |->
      OrElse(extractFromAnalysis(analysisText, "dimensions"),
             "Approximately 10' x 12' kitchen space"),
    layoutType |->
      OrElse(extractFromAnalysis(analysisText, "layout"), "Standard kitchen layout"),
    existingFeatures |-> extractFeatures(analysisText),
    challenges |-> extractChallenges(analysisText),
    opportunities |-> extractOpportunities(analysisText),
    lightingSituation |->
      OrElse(extractFromAnalysis(analysisText, "lighting"), "Natural light from windows"),
    architecturalElements |-> extractArchitectural(analysisText),
    recommendedStyles |-> extractRecommendedStyles(analysisText),
    spaceOptimization |-> extractOptimization(analysisText) ]

(***************************************************************************)
(* The POST handler                                                        *)
(***************************************************************************)

VARIABLES
  apiKey,            \* whether process.env.OPENAI_API_KEY is set
  request,           \* the request being handled
  pc,                \* the handler's position
  designVariations,  \* the builder's result
  designs,           \* the designs list of the generate path
  stats,             \* { imagesGenerated, imagesFailed }
  index,             \* position of the per-variation loop (1-based)
  imagePrompt,       \* the prompt of the iteration in progress
  calls,             \* history: the external calls issued, in order
  inflight,          \* positions in calls of the calls not yet resolved
  outcomes,          \* history: how each loop iteration ended
  leadLogged,        \* number of leads logged
  response,          \* the response returned
  fnInput,           \* pure-function checks: the arguments drawn
  fnOutput           \* pure-function checks: the results

vars ==
  << apiKey, request, pc, designVariations, designs, stats, index, imagePrompt,
     calls, inflight, outcomes, leadLogged, response, fnInput, fnOutput >>

handlerVars ==
  << apiKey, request, pc, designVariations, designs, stats, index, imagePrompt,
     calls, inflight, outcomes, leadLogged, response >>

\* ---- inputs ----

\* Bound: how many distinct image URLs the synthesis capability may return.
MaxUrls == 2

\* 20 * 1024 * 1024 bytes
MaxImageBytes == 20 * 1024 * 1024

ImageInputs ==
  { [present |-> FALSE, size |-> 0, type |-> ""] }
  \cup [ present : {TRUE},
         size : { 1024, MaxImageBytes, MaxImageBytes + 1 },
         type : { "image/png", "text/plain" } ]

ActionInputs == { "analyze", "generate", "remix" }

PreferenceFields ==
  { "kitchenStyle", "colorPreference", "budgetRange", "storageNeeds",
    "cookingHabits", "familySize" }

\* Complete preferences objects of the handler's runs.
FullPreferences ==
  [ kitchenStyle : { "modern", "rustic" },
    colorPreference : { "two-tone" },
    budgetRange : { "60k-80k" },
    storageNeeds : { "maximum-storage", "constructor" },
    cookingHabits : { "daily-cook", "occasional" },
    familySize : { "large-family", "couple" } ]

\* Preferences objects as JSON.parse may deliver them: any property may be
\* missing.
RequestPreferences ==
  { [f \in S |-> full[f]] : full \in FullPreferences, S \in SUBSET PreferenceFields }

NoPreferences == [f \in { } |-> ""]

AnalysisTexts ==
  { << "" >>,
    << "Nothing to report" >>,
    << "LAYOUT: Galley kitchen",
       "  Room size 10 x 12 feet  ",
       "Large window, small and dated, limited storage" >> }

\* How the vision call may end: it raises, it returns no content, or it
\* returns a text.
VisionOutcomes ==
  { [kind |-> "raise", text |-> << >>], [kind |-> "nocontent", text |-> << >>] }
  \cup { [kind |-> "text", text |-> t] : t \in AnalysisTexts }

ImageUrl(n) == "https://images.example/" \o DecimalString(n) \o ".png"

\* How a synthesis call may end: it raises, it returns no URL (no data item,
\* or an empty url), or it returns a URL.
SynthOutcomes ==
  { [kind |-> "raise", url |-> ""], [kind |-> "nourl", url |-> ""] }
  \cup { [kind |-> "url", url |-> ImageUrl(n)] : n \in 1..MaxUrls }

\* ---- responses ----

NoResponse == [sent |-> FALSE]

\* NextResponse.json(body, { status })
Json(body, status) == [sent |-> TRUE, status |-> status, body |-> body]

ErrorBody(message) == [success |-> FALSE, error |-> message]

\* The outer catch of POST.
OuterCatch == Json(ErrorBody("Failed to process request. Please try again."), 500)

InvalidActionResponse == Json(ErrorBody("Invalid action"), 400)

checkRateLimit(req) == [allowed |-> TRUE]

StartsWith(s, prefix) == Len(s) >= Len(prefix) /\ SubSeq(s, 1, Len(prefix)) = prefix

\* Variant of Validation: the API key is not looked at.
ValidationWithoutKeyCheck(req, key) ==
  IF ~checkRateLimit(req).allowed
  THEN Json(ErrorBody("Rate limit exceeded. Please try again later."), 429)
  ELSE IF ~req.bodyOk THEN OuterCatch
  ELSE IF ~req.image.present THEN Json(ErrorBody("No image provided"), 400)
  ELSE IF req.image.size > MaxImageBytes
  THEN Json(ErrorBody("Image too large. Please use an image under 20MB."), 400)
  ELSE IF ~StartsWith(req.image.type, "image/")
  THEN Json(ErrorBody("Please upload a valid image file."), 400)
  ELSE NoResponse

\* The handler from its entry to the base64 conversion: the response it
\* returns there, or NoResponse when the request passes.
Validation(req, key) ==
  IF ~checkRateLimit(req).allowed
  THEN Json(ErrorBody("Rate limit exceeded. Please try again later."), 429)
  ELSE IF ~req.bodyOk THEN OuterCatch
  ELSE IF ~req.image.present THEN Json(ErrorBody("No image provided"), 400)
  ELSE IF ~key THEN Json(ErrorBody("AI service temporarily unavailable"), 500)
  ELSE IF req.image.size > MaxImageBytes
  THEN Json(ErrorBody("Image too large. Please use an image under 20MB."), 400)
  ELSE IF ~StartsWith(req.image.type, "image/")
  THEN Json(ErrorBody("Please upload a valid image file."), 400)
  ELSE NoResponse

\* Variant of Dispatch: the second branch is a plain else.
DispatchElseGenerate(action) ==
  IF action = "analyze" THEN "analyze" ELSE "generate"

\* The branch the handler takes on the action field.
Dispatch(action) ==
  IF action = "analyze" THEN "analyze"
  ELSE IF action = "generate" THEN "generate"
  ELSE "invalid"

\* ---- design entries ----

\* Variant of SuccessDesign: the description names the image that came back.
SuccessDesignNamingImage(designVariation, preferences, generatedImageUrl, prompt) ==
  [ styleName |-> designVariation.name,
    description |-> designVariation.description \o " See " \o generatedImageUrl,
    cabinetStyle |-> designVariation.cabinetStyle,
    colorPalette |-> designVariation.colorPalette,
    keyFeatures |-> designVariation.keyFeatures,
    estimatedCost |-> calculateCost(Prop(preferences, "budgetRange"), designVariation.complexity),
    timeline |-> designVariation.timeline,
    whyThisWorks |-> designVariation.whyThisWorks,
    layoutOptimization |-> designVariation.layoutOptimization,
    storageFeatures |-> designVariation.storageFeatures,
    generatedImage |-> generatedImageUrl,
    imagePrompt |-> prompt,
    imageStatus |-> "success" ]

\* The entry pushed in the try block when a URL came back.
SuccessDesign(designVariation, preferences, generatedImageUrl, prompt) ==
  [ styleName |-> designVariation.name,
    description |-> designVariation.description,
    cabinetStyle |-> designVariation.cabinetStyle,
    colorPalette |-> designVariation.colorPalette,
    keyFeatures |-> designVariation.keyFeatures,
    estimatedCost |-> calculateCost(Prop(preferences, "budgetRange"), designVariation.complexity),
    timeline |-> designVariation.timeline,
    whyThisWorks |-> designVariation.whyThisWorks,
    layoutOptimization |-> designVariation.layoutOptimization,
    storageFeatures |-> designVariation.storageFeatures,
    generatedImage |-> generatedImageUrl,
    imagePrompt |-> prompt,
    imageStatus |-> "success" ]

\* Variant of FailedDesign: the layoutOptimization property is left out.
FailedDesignWithoutLayout(designVariation, preferences) ==
  [ styleName |-> designVariation.name,
    description |-> designVariation.description,
    cabinetStyle |-> designVariation.cabinetStyle,
    colorPalette |-> designVariation.colorPalette,
    keyFeatures |-> designVariation.keyFeatures,
    estimatedCost |-> calculateCost(Prop(preferences, "budgetRange"), designVariation.complexity),
    timeline |-> designVariation.timeline,
    whyThisWorks |-> designVariation.whyThisWorks,
    storageFeatures |-> designVariation.storageFeatures,
    imageStatus |-> "failed" ]

\* The entry pushed in the catch block.
FailedDesign(designVariation, preferences) ==
  [ styleName |-> designVariation.name,
    description |-> designVariation.description,
    cabinetStyle |-> designVariation.cabinetStyle,
    colorPalette |-> designVariation.colorPalette,
    keyFeatures |-> designVariation.keyFeatures,
    estimatedCost |-> calculateCost(Prop(preferences, "budgetRange"), designVariation.complexity),
    timeline |-> designVariation.timeline,
    whyThisWorks |-> designVariation.whyThisWorks,
    layoutOptimization |-> designVariation.layoutOptimization,
    storageFeatures |-> designVariation.storageFeatures,
    imageStatus |-> "failed" ]

\* stats.imagesGenerated++ and stats.imagesFailed++
CountGenerated(st) == [st EXCEPT !.imagesGenerated = @ + 1]

\* Variant of CountFailed: the increment is forgotten.
CountFailedForgotten(st) == st

CountFailed(st) == [st EXCEPT !.imagesFailed = @ + 1]

GenerateResponse(ds, st) ==
  Json([ success |-> TRUE,
         designs |-> ds,
         stats |-> st,
         message |-> "Generated " \o DecimalString(st.imagesGenerated)
                       \o " personalized kitchen designs for Urban Woodspace!" ],
       200)

AnalyzeResponse(analysisText) ==
  Json([ success |-> TRUE,
         spaceAnalysis |-> SpaceAnalysis(analysisText),
         originalAnalysis |-> analysisText ],
       200)

\* ---- the handler's steps ----

NoRequest == [received |-> FALSE]

NoFn == [fn |-> "none"]

Init ==
  /\ apiKey \in BOOLEAN
  /\ request = NoRequest
  /\ pc = "idle"
  /\ designVariations = << >>
  /\ designs = << >>
  /\ stats = [imagesGenerated |-> 0, imagesFailed |-> 0]
  /\ index = 1
  /\ imagePrompt = ""
  /\ calls = << >>
  /\ inflight = { }
  /\ outcomes = << >>
  /\ leadLogged = 0
  /\ response = NoResponse
  /\ fnInput = NoFn
  /\ fnOutput = NoFn

\* A request arrives.  The preferences and contact fields matter to the
\* generate path only.
Receive ==
  /\ pc = "idle"
  /\ \E image \in ImageInputs, action \in ActionInputs, bodyOk \in BOOLEAN,
        hasPreferences \in BOOLEAN, hasContact \in BOOLEAN,
        preferences \in RequestPreferences :
       /\ (action # "generate" \/ ~hasPreferences) => preferences = NoPreferences
       /\ action # "generate" => (hasPreferences /\ hasContact)
       /\ request' = [ received |-> TRUE, image |-> image, action |-> action,
                       bodyOk |-> bodyOk, hasPreferences |-> hasPreferences,
                       hasContact |-> hasContact, preferences |-> preferences ]
  /\ pc' = "start"
  /\ UNCHANGED << apiKey, designVariations, designs, stats, index, imagePrompt,
                  calls, inflight, outcomes, leadLogged, response, fnInput, fnOutput >>

\* Rate limit, form parsing, validation, base64 conversion (lines 37-78).
Validate ==
  /\ pc = "start"
  /\ response' = Validation(request, apiKey)
  /\ pc' = IF Validation(request, apiKey).sent THEN "done" ELSE "dispatch"
  /\ UNCHANGED << apiKey, request, designVariations, designs, stats, index,
                  imagePrompt, calls, inflight, outcomes, leadLogged, fnInput, fnOutput >>

\* action === "analyze": the vision call is issued and awaited.
AnalyzeIssue ==
  /\ pc = "dispatch"
  /\ Dispatch(request.action) = "analyze"
  /\ calls' = Append(calls, [kind |-> "vision", index |-> 0, prompt |-> ""])
  /\ inflight' = inflight \cup { Len(calls) + 1 }
  /\ pc' = "awaitVision"
  /\ UNCHANGED << apiKey, request, designVariations, designs, stats, index,
                  imagePrompt, outcomes, leadLogged, response, fnInput, fnOutput >>

\* choices[0]?.message?.content || "Analysis not available": a missing
\* content and the empty text are both falsy.
AnalysisTextOf(outcome) ==
  IF outcome.kind = "nocontent" \/ outcome.text = << "" >>
  THEN << "Analysis not available" >>
  ELSE outcome.text

\* The vision call resolves: an exception reaches the outer catch; otherwise
\* the text (or "Analysis not available") is parsed and returned.
AnalyzeResolve ==
  /\ pc = "awaitVision"
  /\ \E outcome \in VisionOutcomes :
       response' =
         IF outcome.kind = "raise" THEN OuterCatch
         ELSE AnalyzeResponse(AnalysisTextOf(outcome))
  /\ inflight' = { }
  /\ pc' = "done"
  /\ UNCHANGED << apiKey, request, designVariations, designs, stats, index,
                  imagePrompt, calls, outcomes, leadLogged, fnInput, fnOutput >>

\* action === "generate", up to the loop (lines 165-176): JSON.parse of the
\* two fields, the log line (which reads contact.name and
\* preferences.kitchenStyle and throws when either object is null), logLead,
\* createDesignVariations.  An exception reaches the outer catch.
GenerateBegin ==
  /\ pc = "dispatch"
  /\ Dispatch(request.action) = "generate"
  /\ IF ~request.hasContact \/ ~request.hasPreferences
     THEN /\ response' = OuterCatch
          /\ pc' = "done"
          /\ UNCHANGED << designVariations, leadLogged >>
     ELSE /\ leadLogged' = leadLogged + 1
          /\ IF createDesignVariations(request.preferences).ok
             THEN /\ designVariations' = createDesignVariations(request.preferences).v
                  /\ pc' = "loop"
                  /\ response' = response
             ELSE /\ response' = OuterCatch
                  /\ pc' = "done"
                  /\ UNCHANGED designVariations
  /\ designs' = << >>
  /\ stats' = [imagesGenerated |-> 0, imagesFailed |-> 0]
  /\ index' = 1
  /\ UNCHANGED << apiKey, request, imagePrompt, calls, inflight, outcomes,
                  fnInput, fnOutput >>

\* Variant of IterIssue: the call is issued and not awaited; the loop goes on.
IterIssueNotAwaited ==
  /\ pc = "loop"
  /\ index <= Len(designVariations)
  /\ createImagePrompt(designVariations[index], request.preferences).ok
  /\ imagePrompt' = createImagePrompt(designVariations[index], request.preferences).v
  /\ calls' = Append(calls, [kind |-> "synth", index |-> index, prompt |-> imagePrompt'])
  /\ inflight' = inflight \cup { Len(calls) + 1 }
  /\ index' = index + 1
  /\ UNCHANGED << apiKey, request, pc, designVariations, designs, stats,
                  outcomes, leadLogged, response, fnInput, fnOutput >>

\* An iteration starts (lines 180-191): the prompt is composed and the
\* synthesis call is issued and awaited.
IterIssue ==
  /\ pc = "loop"
  /\ index <= Len(designVariations)
  /\ createImagePrompt(designVariations[index], request.preferences).ok
  /\ imagePrompt' = createImagePrompt(designVariations[index], request.preferences).v
  /\ calls' = Append(calls, [kind |-> "synth", index |-> index, prompt |-> imagePrompt'])
  /\ inflight' = inflight \cup { Len(calls) + 1 }
  /\ pc' = "awaitSynth"
  /\ UNCHANGED << apiKey, request, designVariations, designs, stats, index,
                  outcomes, leadLogged, response, fnInput, fnOutput >>

\* An iteration starts and createImagePrompt throws inside the try block:
\* the catch block records a failed entry, and no call is issued.
IterPromptThrows ==
  /\ pc = "loop"
  /\ index <= Len(designVariations)
  /\ ~createImagePrompt(designVariations[index], request.preferences).ok
  /\ designs' = Append(designs, FailedDesign(designVariations[index], request.preferences))
  /\ stats' = CountFailed(stats)
  /\ outcomes' = Append(outcomes, "nocall")
  /\ index' = index + 1
  /\ UNCHANGED << apiKey, request, pc, designVariations, imagePrompt, calls,
                  inflight, leadLogged, response, fnInput, fnOutput >>

\* Variant of SynthResolve: no try/catch around the iteration, so a raised
\* call or a missing URL reaches the outer catch.
SynthResolveUncaught ==
  /\ pc = "awaitSynth"
  /\ \E outcome \in SynthOutcomes :
       /\ outcomes' = Append(outcomes, outcome.kind)
       /\ IF outcome.kind = "url"
          THEN /\ designs' = Append(designs,
                                    SuccessDesign(designVariations[index], request.preferences,
                                                  outcome.url, imagePrompt))
               /\ stats' = CountGenerated(stats)
               /\ pc' = "loop"
               /\ response' = response
          ELSE /\ response' = OuterCatch
               /\ pc' = "done"
               /\ UNCHANGED << designs, stats >>
  /\ inflight' = { }
  /\ index' = index + 1
  /\ UNCHANGED << apiKey, request, designVariations, imagePrompt, calls,
                  leadLogged, fnInput, fnOutput >>

\* The synthesis call resolves (lines 193-232): with a URL the success entry
\* is pushed; with no URL the try block throws, and that exception or the
\* call's own is caught and the failed entry is pushed.
SynthResolve ==
  /\ pc = "awaitSynth"
  /\ \E outcome \in SynthOutcomes :
       /\ outcomes' = Append(outcomes, outcome.kind)
       /\ IF outcome.kind = "url"
          THEN /\ designs' = Append(designs,
                                    SuccessDesign(designVariations[index], request.preferences,
                                                  outcome.url, imagePrompt))
               /\ stats' = CountGenerated(stats)
          ELSE /\ designs' = Append(designs,
                                    FailedDesign(designVariations[index], request.preferences))
               /\ stats' = CountFailed(stats)
  /\ inflight' = { }
  /\ index' = index + 1
  /\ pc' = "loop"
  /\ response' = response
  /\ UNCHANGED << apiKey, request, designVariations, imagePrompt, calls,
                  leadLogged, fnInput, fnOutput >>

\* The loop has ended (lines 235-245).
GenerateRespond ==
  /\ pc = "loop"
  /\ index > Len(designVariations)
  /\ response' = GenerateResponse(designs, stats)
  /\ pc' = "done"
  /\ UNCHANGED << apiKey, request, designVariations, designs, stats, index,
                  imagePrompt, calls, inflight, outcomes, leadLogged, fnInput, fnOutput >>

\* Neither branch was taken (line 248).
InvalidAction ==
  /\ pc = "dispatch"
  /\ Dispatch(request.action) = "invalid"
  /\ response' = InvalidActionResponse
  /\ pc' = "done"
  /\ UNCHANGED << apiKey, request, designVariations, designs, stats, index,
                  imagePrompt, calls, inflight, outcomes, leadLogged, fnInput, fnOutput >>

Next ==
  \/ Receive
  \/ Validate
  \/ AnalyzeIssue
  \/ AnalyzeResolve
  \/ GenerateBegin
  \/ IterIssue
  \/ IterPromptThrows
  \/ SynthResolve
  \/ GenerateRespond
  \/ InvalidAction

Spec == Init /\ [][Next]_vars

(***************************************************************************)
(* Pure-function checks: the arguments are drawn initially, and one action *)
(* per function applies it.                                                *)
(***************************************************************************)

KnownStyles ==
  { "contemporary", "traditional", "transitional", "modern", "farmhouse",
    "scandinavian", "industrial" }

KnownColors == { "light-neutral", "dark-dramatic", "warm-wood", "two-tone", "bold-colors" }

KnownStorage ==
  { "maximum-storage", "organized-storage", "display-storage", "hidden-storage",
    "pantry-storage" }

StyleKeys == KnownStyles \cup { "rustic", "", "constructor" }

ColorKeys == KnownColors \cup { "pastel", "toString" }

StorageKeys == KnownStorage \cup { "open-shelving", "", "constructor", "toString" }

CookingKeys == { "daily-cook", "frequent-entertainer", "occasional", "entertainer" }

BuilderInputs ==
  { [ fn |-> "createDesignVariations",
      preferences |-> [ kitchenStyle |-> st, colorPreference |-> co,
                        budgetRange |-> "60k-80k", storageNeeds |-> sg,
                        cookingHabits |-> ck, familySize |-> "couple" ] ] :
      st \in StyleKeys, co \in ColorKeys, sg \in StorageKeys, ck \in CookingKeys }

LookupInputs ==
  [ fn : { "lookups" }, style : StyleKeys, color : ColorKeys, storage : StorageKeys,
    tier : { "primary", "enhanced", "value" } ]

BudgetKeys ==
  DOMAIN BudgetMultipliers \cup { "10k-25k", "", "undefined", "constructor", "valueOf" }

ComplexityKeys == DOMAIN ComplexityMultipliers \cup { "luxury", "", "toString" }

CostInputs == [ fn : { "calculateCost" }, budgetRange : BudgetKeys, complexity : ComplexityKeys ]

\* Bound: the longest storageFeatures list handed to createImagePrompt.
MaxStorageItems == 5

\* A storageFeatures list of n items: the maximum-storage list, then further
\* items.
FeatureList(n) ==
  [ i \in 1..n |->
      IF i <= Len(StorageFeatures["maximum-storage"])
      THEN StorageFeatures["maximum-storage"][i]
      ELSE "Additional storage feature " \o DecimalString(i) ]

\* Preferences for createImagePrompt: kitchenStyle, cookingHabits and
\* familySize may each be missing.
PromptPreferences ==
  { [f \in S |-> full[f]] :
      full \in [ kitchenStyle : StyleKeys, colorPreference : { "two-tone" },
                 cookingHabits : CookingKeys, familySize : { "large-family", "couple" } ],
      S \in { PreferenceFields \ ({ "budgetRange", "storageNeeds" } \cup M) :
                M \in { { }, { "kitchenStyle" }, { "cookingHabits" }, { "familySize" } } } }

PromptInputs ==
  { [ fn |-> "createImagePrompt",
      design |-> [ colorPalette |-> getColorPalette(Prop(pr, "colorPreference"), "primary"),
                   cabinetStyle |-> getCabinetStyle(Prop(pr, "kitchenStyle"), "primary"),
                   storageFeatures |-> FeatureList(n) ],
      preferences |-> pr ] :
      pr \in PromptPreferences, n \in 0..MaxStorageItems }

\* Bound: the number of lines of an analysis text.
MaxLines == 2

AnalysisLines ==
  { "", "   ", "Nothing to report", "  Room size 10 x 12 feet  ",
    "LAYOUT: Galley kitchen with ISLAND",
    "Large window, small and dated, limited storage",
    "Bright modern classic farmhouse look",
    "High ceiling, wood floor, one door" }

\* The texts the vision call may return: up to MaxLines lines.
AnalysisContents ==
  UNION { [1..n -> AnalysisLines] : n \in 1..MaxLines }

AnalysisInputs ==
  { [fn |-> "spaceAnalysis", outcome |-> [kind |-> "nocontent", text |-> << >>]] }
  \cup { [fn |-> "spaceAnalysis", outcome |-> [kind |-> "text", text |-> t]] :
           t \in AnalysisContents }

LayoutCookingKeys == CookingKeys \cup { "", "DAILY", "daily-entertainer" }

LayoutStorageKeys == KnownStorage \cup { "", "Maximum", "open-shelving" }

LayoutInputs ==
  [ fn : { "getLayoutOptimization" }, cooking : LayoutCookingKeys,
    storage : LayoutStorageKeys, tier : { "primary", "enhanced", "value", "Enhanced" } ]

FnInputs ==
  BuilderInputs \cup LookupInputs \cup CostInputs \cup PromptInputs \cup AnalysisInputs
    \cup LayoutInputs

FnInit ==
  /\ apiKey = TRUE
  /\ request = NoRequest
  /\ pc = "idle"
  /\ designVariations = << >>
  /\ designs = << >>
  /\ stats = [imagesGenerated |-> 0, imagesFailed |-> 0]
  /\ index = 1
  /\ imagePrompt = ""
  /\ calls = << >>
  /\ inflight = { }
  /\ outcomes = << >>
  /\ leadLogged = 0
  /\ response = NoResponse
  /\ fnInput \in FnInputs
  /\ fnOutput = NoFn

ApplyBuilder ==
  /\ fnInput.fn = "createDesignVariations"
  /\ fnOutput = NoFn
  /\ fnOutput' = [fn |-> "createDesignVariations",
                  result |-> createDesignVariations(fnInput.preferences)]
  /\ UNCHANGED << handlerVars, fnInput >>

ApplyLookups ==
  /\ fnInput.fn = "lookups"
  /\ fnOutput = NoFn
  /\ fnOutput' = [fn |-> "lookups",
                  cabinetStyle |-> getCabinetStyle(fnInput.style, fnInput.tier),
                  colorPalette |-> getColorPalette(fnInput.color, fnInput.tier),
                  storageFeatures |-> getStorageFeatures(fnInput.storage, fnInput.tier)]
  /\ UNCHANGED << handlerVars, fnInput >>

ApplyCost ==
  /\ fnInput.fn = "calculateCost"
  /\ fnOutput = NoFn
  /\ fnOutput' = [fn |-> "calculateCost",
                  nan |-> CostIsNaN(fnInput.budgetRange, fnInput.complexity),
                  amounts |-> CostAmounts(fnInput.budgetRange, fnInput.complexity),
                  text |-> calculateCost(fnInput.budgetRange, fnInput.complexity)]
  /\ UNCHANGED << handlerVars, fnInput >>

ApplyPrompt ==
  /\ fnInput.fn = "createImagePrompt"
  /\ fnOutput = NoFn
  /\ fnOutput' = [fn |-> "createImagePrompt",
                  result |-> createImagePrompt(fnInput.design, fnInput.preferences)]
  /\ UNCHANGED << handlerVars, fnInput >>

\* Lines 139-152 of the analyze path: the text, then the structure.
ApplyAnalysis ==
  /\ fnInput.fn = "spaceAnalysis"
  /\ fnOutput = NoFn
  /\ fnOutput' = [fn |-> "spaceAnalysis",
                  analysisText |-> AnalysisTextOf(fnInput.outcome),
                  spaceAnalysis |-> SpaceAnalysis(AnalysisTextOf(fnInput.outcome))]
  /\ UNCHANGED << handlerVars, fnInput >>

ApplyLayout ==
  /\ fnInput.fn = "getLayoutOptimization"
  /\ fnOutput = NoFn
  /\ fnOutput' = [fn |-> "getLayoutOptimization",
                  result |-> getLayoutOptimization(fnInput.cooking, fnInput.storage,
                                                   fnInput.tier)]
  /\ UNCHANGED << handlerVars, fnInput >>

FnNext ==
  \/ ApplyLayout
  \/ ApplyAnalysis
  \/ ApplyPrompt
  \/ ApplyBuilder
  \/ ApplyLookups
  \/ ApplyCost

FnSpec == FnInit /\ [][FnNext]_vars

(***************************************************************************)
(* Properties                                                              *)
(***************************************************************************)

\* The builder has returned and the per-variation loop has been entered.
LoopEntered == Len(designVariations) > 0

\* The loop has ended.
LoopEnded == LoopEntered /\ (pc = "done" \/ (pc = "loop" /\ index > Len(designVariations)))

\* The request passes the handler's validation.
PassesValidation ==
  /\ request.received
  /\ request.bodyOk
  /\ request.image.present
  /\ apiKey
  /\ request.image.size <= 20 * 1024 * 1024
  /\ StartsWith(request.image.type, "image/")

\* The synthesis calls issued for variation i.
SynthCallsFor(i) ==
  { c \in 1..Len(calls) : calls[c].kind = "synth" /\ calls[c].index = i }

\* C1: at every point of the per-variation loop the designs list holds one
\* entry for each variation processed so far, entry k built from variation k,
\* and imagesGenerated + imagesFailed equals its length; when the loop has
\* ended the length is the number of variations, 3.
C1_OneDesignPerProcessedVariation ==
  LoopEntered =>
    /\ Len(designs) = index - 1
    /\ Len(designs) <= Len(designVariations)
    /\ \A k \in 1..Len(designs) :
         /\ designs[k].styleName = designVariations[k].name
         /\ designs[k].timeline = designVariations[k].timeline
         /\ designs[k].cabinetStyle = designVariations[k].cabinetStyle
         /\ designs[k].keyFeatures = designVariations[k].keyFeatures
    /\ stats.imagesGenerated + stats.imagesFailed = Len(designs)
    /\ LoopEnded => (Len(designs) = Len(designVariations) /\ Len(designs) = 3)

\* C1 witness: mid-loop, one variation succeeded, one failed, the third call
\* is outstanding.
C1_Witness ==
  /\ pc = "awaitSynth"
  /\ index = 3
  /\ stats = [imagesGenerated |-> 1, imagesFailed |-> 1]
  /\ Len(designs) = 2

\* C2: a synthesis failure at a variation never stops the loop and never
\* reaches the request-level error handler: while variations remain the loop
\* can take its next step, the generic failure result is never returned once
\* the loop is entered, and the request ends with the success result carrying
\* three designs and the stats.
C2_FailureNeverAbortsLoop ==
  LoopEntered =>
    /\ response # OuterCatch
    /\ (pc = "loop" /\ index <= Len(designVariations)) =>
         ENABLED (IterIssue \/ IterPromptThrows)
    /\ pc = "awaitSynth" => ENABLED SynthResolve
    /\ pc = "done" =>
         /\ Len(outcomes) = 3
         /\ response.sent
         /\ response.body.success
         /\ Len(response.body.designs) = 3
         /\ response.body.stats = stats
         /\ stats.imagesGenerated + stats.imagesFailed = 3

\* C2 witness: the first call raised, the second returned no URL, the third
\* returned a URL, and the request ended with the success result.
C2_Witness ==
  /\ pc = "done"
  /\ outcomes = << "raise", "nourl", "url" >>
  /\ response.body.success
  /\ Len(response.body.designs) = 3

\* C3 (as claimed): in the final designs list entry i is "failed" exactly when
\* the synthesis call for variation i raised or returned no URL, and
\* "success" otherwise; a failed entry has neither generatedImage nor
\* imagePrompt, a success entry has a non-empty generatedImage and the prompt
\* that was sent; the counters count the failed and the success entries.
C3_StatusMatchesSynthesisOutcome ==
  (LoopEntered /\ pc = "done") =>
    /\ \A i \in 1..Len(designs) :
         /\ designs[i].imageStatus = "failed"
              <=> (SynthCallsFor(i) # { } /\ outcomes[i] \in { "raise", "nourl" })
         /\ designs[i].imageStatus \in { "failed", "success" }
         /\ designs[i].imageStatus = "failed" =>
              /\ "generatedImage" \notin DOMAIN designs[i]
              /\ "imagePrompt" \notin DOMAIN designs[i]
         /\ designs[i].imageStatus = "success" =>
              /\ "generatedImage" \in DOMAIN designs[i]
              /\ designs[i].generatedImage # ""
              /\ "imagePrompt" \in DOMAIN designs[i]
              /\ \E c \in SynthCallsFor(i) : calls[c].prompt = designs[i].imagePrompt
    /\ stats.imagesFailed
         = Cardinality({ i \in 1..Len(designs) : designs[i].imageStatus = "failed" })
    /\ stats.imagesGenerated
         = Cardinality({ i \in 1..Len(designs) : designs[i].imageStatus = "success" })

\* C4 (as claimed): the synthesis capability is invoked exactly once for each
\* variation: never twice for one variation, never skipping a processed
\* variation, and three times in all when the loop has ended.
C4_OneSynthesisCallPerVariation ==
  LoopEntered =>
    /\ \A i \in 1..Len(designVariations) : Cardinality(SynthCallsFor(i)) <= 1
    /\ \A i \in 1..Len(designs) : Cardinality(SynthCallsFor(i)) = 1
    /\ LoopEnded => Len(calls) = Len(designVariations)

\* C5: at most one synthesis call is outstanding at any time, and while the
\* call for a variation is outstanding the entries and the counter updates of
\* all earlier variations have been recorded, and no later call was issued.
C5_OneOutstandingCall ==
  /\ Cardinality(inflight) <= 1
  /\ \A c \in inflight :
       calls[c].kind = "synth" =>
         /\ c = Len(calls)
         /\ calls[c].index = index
         /\ Len(designs) = calls[c].index - 1
         /\ stats.imagesGenerated + stats.imagesFailed = calls[c].index - 1
  /\ \A c \in 1..Len(calls) :
       (calls[c].kind = "synth" /\ c \notin inflight) => Len(designs) >= calls[c].index

\* C5 witness: the second variation's call is outstanding, the first one's
\* has resolved and been recorded.
C5_Witness ==
  /\ Cardinality(inflight) = 1
  /\ Len(calls) = 2
  /\ calls[2].index = 2
  /\ Len(designs) = 1

\* C6 (amended): a request whose action is neither "analyze" nor "generate"
\* never calls a capability and never logs a lead, and when it passes the
\* validation it ends with { success: false, error: "Invalid action" }.
C6_InvalidActionAfterValidation ==
  (request.received /\ request.action \notin { "analyze", "generate" }) =>
    /\ calls = << >>
    /\ inflight = { }
    /\ leadLogged = 0
    /\ (pc = "done" /\ PassesValidation) =>
         /\ response.sent
         /\ response.body = [success |-> FALSE, error |-> "Invalid action"]

\* C6 witness: a validated request with action "remix" has been answered.
C6_Witness ==
  /\ pc = "done"
  /\ request.action = "remix"
  /\ PassesValidation
  /\ response = InvalidActionResponse

\* C6 (as claimed): every request whose action is neither "analyze" nor
\* "generate" ends with { success: false, error: "Invalid action" }.
C6_AsClaimed ==
  (request.received /\ request.action \notin { "analyze", "generate" } /\ pc = "done") =>
    response.body = [success |-> FALSE, error |-> "Invalid action"]

\* The preferences lack a field the builder or the prompt composer
\* dereferences.
MalformedPreferences(preferences) ==
  \E f \in { "cookingHabits", "storageNeeds", "kitchenStyle", "familySize" } :
    f \notin DOMAIN preferences

\* C7 (as claimed): a generate request with malformed preferences ends with
\* the generic request-level failure, never with a success result carrying
\* designs, and records no per-item failure.
C7_MalformedPreferencesRejected ==
  ( /\ pc = "done"
    /\ PassesValidation
    /\ request.action = "generate"
    /\ request.hasContact
    /\ request.hasPreferences
    /\ MalformedPreferences(request.preferences) ) =>
    /\ response = OuterCatch
    /\ designs = << >>
    /\ stats.imagesFailed = 0

\* The variation fields a design entry carries under the same name.
CarriedFields ==
  { "description", "cabinetStyle", "colorPalette", "keyFeatures", "timeline",
    "whyThisWorks", "layoutOptimization", "storageFeatures" }

\* C8 (amended): every design entry, success or failed, carries the
\* variation's description, cabinetStyle, colorPalette, keyFeatures, timeline,
\* whyThisWorks, layoutOptimization and storageFeatures under those names and
\* with the variation's values, the variation's name under styleName, and
\* estimatedCost; it has no name and no complexity property.
C8_DesignCarriesVariationFields ==
  \A k \in 1..Len(designs) :
    /\ \A f \in CarriedFields :
         /\ f \in DOMAIN designs[k]
         /\ designs[k][f] = designVariations[k][f]
    /\ "styleName" \in DOMAIN designs[k]
    /\ designs[k].styleName = designVariations[k].name
    /\ "estimatedCost" \in DOMAIN designs[k]
    /\ "name" \notin DOMAIN designs[k]
    /\ "complexity" \notin DOMAIN designs[k]

\* C8 witness: the final list holds a failed and a success entry.
C8_Witness ==
  /\ pc = "done"
  /\ Len(designs) = 3
  /\ designs[1].imageStatus = "failed"
  /\ designs[2].imageStatus = "success"
  /\ designs[3].imageStatus = "failed"

\* C8 (as claimed): every design entry carries all ten variation fields,
\* name and complexity included, under those names.
C8_AsClaimed ==
  \A k \in 1..Len(designs) :
    \A f \in CarriedFields \cup { "name", "complexity" } :
      /\ f \in DOMAIN designs[k]
      /\ designs[k][f] = designVariations[k][f]

\* Valid preferences: every field present, the enumerated ones in range.
ValidPreferences(preferences) ==
  /\ DOMAIN preferences = PreferenceFields
  /\ preferences.kitchenStyle \in KnownStyles
  /\ preferences.colorPreference \in KnownColors
  /\ preferences.storageNeeds \in KnownStorage

\* C9: for valid preferences createDesignVariations returns exactly 3
\* variations, with complexities high, premium, standard and timelines 10-12,
\* 12-14, 8-10 weeks in that order, and position k holds the cabinet style,
\* palette, key features, layout optimization and storage features of tier k
\* (primary, enhanced, value).
C9_ThreeTieredVariations ==
  ( /\ fnInput.fn = "createDesignVariations"
    /\ fnOutput.fn = "createDesignVariations"
    /\ ValidPreferences(fnInput.preferences) ) =>
    LET p == fnInput.preferences
        r == fnOutput.result
    IN  /\ r.ok
        /\ Len(r.v) = 3
        /\ << r.v[1].complexity, r.v[2].complexity, r.v[3].complexity >>
             = << "high", "premium", "standard" >>
        /\ << r.v[1].timeline, r.v[2].timeline, r.v[3].timeline >>
             = << "10-12 weeks", "12-14 weeks", "8-10 weeks" >>
        /\ \A k \in 1..3 :
             LET tier == << "primary", "enhanced", "value" >>[k]
             IN  /\ r.v[k].cabinetStyle = CabinetStyles[p.kitchenStyle][tier]
                 /\ r.v[k].colorPalette = ColorPalettes[p.colorPreference][tier]
                 /\ r.v[k].keyFeatures = KeyFeatures[tier]
                 /\ r.v[k].layoutOptimization
                      = getLayoutOptimization(p.cookingHabits, p.storageNeeds, tier)
                 /\ r.v[k].storageFeatures
                      = StorageFeatures[p.storageNeeds]
                          \o (IF k = 2 THEN EnhancedStorageExtras ELSE << >>)

\* C9 witness: the builder was applied to valid preferences.
C9_Witness ==
  /\ fnInput.fn = "createDesignVariations"
  /\ fnOutput.fn = "createDesignVariations"
  /\ ValidPreferences(fnInput.preferences)
  /\ fnInput.preferences.kitchenStyle = "farmhouse"
  /\ fnOutput.result.ok

\* C10 (as claimed): for a style key outside the 7 known styles
\* getCabinetStyle returns "Custom cabinet style"; for a color key outside the
\* 5 known palettes getColorPalette returns "Custom color palette designed for
\* your space"; for a storage key outside the 5 known needs getStorageFeatures
\* returns the 4-item generic list, followed by the 2 extra items for tier
\* "enhanced"; no lookup returns a non-list.
C10_LookupFallbacks ==
  (fnInput.fn = "lookups" /\ fnOutput.fn = "lookups") =>
    /\ fnInput.style \notin KnownStyles => fnOutput.cabinetStyle = "Custom cabinet style"
    /\ fnInput.color \notin KnownColors =>
         fnOutput.colorPalette = "Custom color palette designed for your space"
    /\ fnOutput.storageFeatures.ok
    /\ fnOutput.storageFeatures.v.t = "array"
    /\ fnInput.storage \notin KnownStorage =>
         fnOutput.storageFeatures.v.v
           = GenericStorageFeatures
               \o (IF fnInput.tier = "enhanced" THEN EnhancedStorageExtras ELSE << >>)

\* The bracket and the multiplier (in hundredths) C11 names.
C11_Bracket(budgetRange) ==
  CASE budgetRange = "25k-40k" -> << 25000, 40000 >>
    [] budgetRange = "40k-60k" -> << 40000, 60000 >>
    [] budgetRange = "60k-80k" -> << 60000, 80000 >>
    [] budgetRange = "80k-100k" -> << 80000, 100000 >>
    [] budgetRange = "100k-plus" -> << 100000, 150000 >>
    [] OTHER -> << 35000, 50000 >>

C11_Hundredths(complexity) ==
  CASE complexity = "standard" -> 85
    [] complexity = "premium" -> 125
    [] OTHER -> 100

\* n is x / 100 rounded to the nearest integer.
C11_IsRounded(n, x) == 100 * n - 50 <= x /\ x < 100 * n + 50

\* C11 (as claimed): calculateCost returns the bracket's min and max times the
\* complexity multiplier (0.85, 1.00, 1.25), rounded to the nearest integer;
\* an unknown budgetRange uses {35000, 50000}, an unknown complexity uses
\* 1.00; ("60k-80k", premium) gives 75000 and 100000, (unknown, high) gives
\* 35000 and 50000.
C11_CostRange ==
  (fnInput.fn = "calculateCost" /\ fnOutput.fn = "calculateCost") =>
    LET b == C11_Bracket(fnInput.budgetRange)
        h == C11_Hundredths(fnInput.complexity)
    IN  /\ ~fnOutput.nan
        /\ C11_IsRounded(fnOutput.amounts.min, b[1] * h)
        /\ C11_IsRounded(fnOutput.amounts.max, b[2] * h)
        /\ fnOutput.text = "$" \o ToLocaleString(fnOutput.amounts.min) \o " - $"
                             \o ToLocaleString(fnOutput.amounts.max) \o " CAD"
        /\ (fnInput.budgetRange = "60k-80k" /\ fnInput.complexity = "premium") =>
             fnOutput.text = "$75,000 - $100,000 CAD"
        /\ (fnInput.budgetRange \notin DOMAIN BudgetMultipliers /\ fnInput.complexity = "high") =>
             fnOutput.text = "$35,000 - $50,000 CAD"

\* C11, for keys that name no property inherited from Object.prototype.
C11_CostRangeOwnKeys ==
  ( /\ fnInput.fn = "calculateCost"
    /\ fnInput.budgetRange \notin ObjectPrototypeKeys
    /\ fnInput.complexity \notin ObjectPrototypeKeys ) => C11_CostRange

\* The position of the first occurrence of sub in s, 0 when there is none.
IndexOf(s, sub) ==
  LET hits == { i \in 1..(Len(s) - Len(sub) + 1) : SubSeq(s, i, i + Len(sub) - 1) = sub }
  IN  IF hits = { } THEN 0 ELSE CHOOSE i \in hits : \A j \in hits : i <= j

\* The clauses C12 names, in its order, each with whether it must be present:
\* base sentence, style clause, color clause, the two cooking clauses, family
\* clause, technical clause, storage clause followed at once by the closing
\* clauses.
C12_Clauses(design, preferences) ==
  LET style == Prop(preferences, "kitchenStyle")
      cooking == preferences.cookingHabits
      family == preferences.familySize
      n == IF Len(design.storageFeatures) < 3 THEN Len(design.storageFeatures) ELSE 3
      first3 == [i \in 1..n |-> design.storageFeatures[i]]
  IN  << [ text |-> "A stunning, photorealistic 3D rendering of a " \o style
                      \o " kitchen design for Urban Woodspace Calgary. ",
           present |-> TRUE ],
         [ text |-> StyleClause(style), present |-> style \in KnownStyles ],
         [ text |-> "Color scheme: " \o design.colorPalette \o ". ", present |-> TRUE ],
         [ text |-> "Efficient work triangle layout",
           present |-> Includes(cooking, "daily") \/ Includes(cooking, "frequent") ],
         [ text |-> "Open layout perfect for entertaining",
           present |-> Includes(cooking, "entertainer") ],
         [ text |-> "Spacious design accommodating large family needs",
           present |-> Includes(family, "large") ],
         [ text |-> design.cabinetStyle \o ". Premium quartz countertops",
           present |-> TRUE ],
         [ text |-> "Storage features: " \o Join(first3, ", ")
                      \o ". Designed for Calgary homes with practical storage",
           present |-> TRUE ],
         [ text |-> "Professional architectural photography style", present |-> TRUE ] >>

\* C12: the prompt starts with the base sentence naming the style; each
\* clause is in the prompt exactly when its condition holds (the style clause
\* for the 7 known styles only); the clauses present follow one another in
\* the fixed order; and the storage clause holds exactly the first 3 items of
\* storageFeatures, in order, and no 4th or later item.
C12_PromptClauseOrder ==
  (fnInput.fn = "createImagePrompt" /\ fnOutput.fn = "createImagePrompt" /\ fnOutput.result.ok) =>
    LET prompt == fnOutput.result.v
        cl == C12_Clauses(fnInput.design, fnInput.preferences)
        at == [i \in 1..Len(cl) |-> IF cl[i].text = "" THEN 0 ELSE IndexOf(prompt, cl[i].text)]
        here == { i \in 1..Len(cl) : cl[i].present }
    IN  /\ at[1] = 1
        /\ \A i \in 1..Len(cl) : cl[i].present <=> at[i] > 0
        /\ \A i, j \in here : i < j => at[i] + Len(cl[i].text) <= at[j]
        /\ \A i \in 4..Len(fnInput.design.storageFeatures) :
             ~Includes(prompt, fnInput.design.storageFeatures[i])

\* C12 witness: a prompt for a known style with every optional clause, from a
\* design with 5 storage features.
C12_Witness ==
  /\ fnInput.fn = "createImagePrompt"
  /\ fnOutput.fn = "createImagePrompt"
  /\ fnOutput.result.ok
  /\ Len(fnInput.design.storageFeatures) = 5
  /\ "kitchenStyle" \in DOMAIN fnInput.preferences
  /\ fnInput.preferences.kitchenStyle = "farmhouse"
  /\ fnInput.preferences.cookingHabits = "frequent-entertainer"
  /\ fnInput.preferences.familySize = "large-family"

\* Every keyword the extractors look for.
C13_Keywords ==
  { "dimension", "size", "feet", "'", "x", "layout", "galley", "l-shaped",
    "u-shaped", "island", "light", "window", "bright", "ceiling", "floor",
    "door", "small", "limited", "old", "dated", "storage", "modern",
    "contemporary", "traditional", "classic", "transitional", "farmhouse",
    "rustic" }

C13_Defaults ==
  [ roomDimensions |-> "Approximately 10' x 12' kitchen space",
    layoutType |-> "Standard kitchen layout",
    existingFeatures |-> << "Natural lighting", "Standard ceiling height", "Existing flooring" >>,
    challenges |-> << "Space optimization needed", "Storage improvements", "Lighting updates" >>,
    opportunities |->
      << "Maximize vertical storage with tall cabinets",
         "Improve workflow with optimized layout",
         "Add modern lighting solutions",
         "Create more counter workspace",
         "Enhance storage organization" >>,
    lightingSituation |-> "Natural light from windows",
    architecturalElements |->
      << "Standard wall construction", "Existing flooring", "Window placement", "Door locations" >>,
    recommendedStyles |-> << "Contemporary", "Traditional", "Transitional" >>,
    spaceOptimization |->
      << "Optimize work triangle efficiency", "Maximize storage capacity",
         "Improve traffic flow", "Enhance natural lighting" >> ]

C13_StringFields == { "roomDimensions", "layoutType", "lightingSituation" }

C13_ListFields ==
  { "existingFeatures", "challenges", "opportunities", "architecturalElements",
    "recommendedStyles", "spaceOptimization" }

\* C13: for every analysis text every field of the SpaceAnalysis built on the
\* analyze path is non-empty (no empty string, no empty list, no field
\* missing), and when the text holds no keyword every field is its default.
C13_AnalysisFieldsNonEmpty ==
  (fnInput.fn = "spaceAnalysis" /\ fnOutput.fn = "spaceAnalysis") =>
    LET a == fnOutput.spaceAnalysis
        text == fnOutput.analysisText
    IN  /\ DOMAIN a = C13_StringFields \cup C13_ListFields
        /\ \A f \in C13_StringFields : a[f] # ""
        /\ \A f \in C13_ListFields :
             /\ Len(a[f]) > 0
             /\ \A i \in 1..Len(a[f]) : a[f][i] # ""
        /\ (\A kw \in C13_Keywords : ~TextIncludes(text, kw)) => a = C13_Defaults

\* C13 witness: the structure built from the empty text.
C13_Witness ==
  /\ fnInput.fn = "spaceAnalysis"
  /\ fnOutput.fn = "spaceAnalysis"
  /\ fnInput.outcome.text = << "" >>
  /\ fnOutput.spaceAnalysis = C13_Defaults

\* The two phrases of each condition, in the order cooking, entertainer,
\* storage, enhanced.
C14_Phrases ==
  << << "Optimized work triangle for efficient cooking",
        "Multiple prep areas for complex meals" >>,
     << "Open layout for social cooking and entertaining",
        "Extended counter space for serving guests" >>,
     << "Floor-to-ceiling storage maximization",
        "Corner cabinet optimization with lazy susans" >>,
     << "Smart appliance integration zones",
        "Hidden storage solutions and secret compartments" >> >>

\* The conditions (1 cooking, 2 entertainer, 3 storage, 4 enhanced) that fire.
C14_Fired(cooking, storage, tier) ==
  { c \in 1..4 :
      \/ c = 1 /\ \E w \in { "daily", "frequent" } : Includes(cooking, w)
      \/ c = 2 /\ Includes(cooking, "entertainer")
      \/ c = 3 /\ Includes(storage, "maximum")
      \/ c = 4 /\ tier = "enhanced" }

\* The list the claim describes: the default, or the phrases of the fired
\* conditions, the c-th fired condition at positions 2r-1 and 2r where r is
\* its rank among the fired ones.
C14_Describes(list, fired) ==
  /\ (list = << "Improved workflow efficiency", "Optimized storage placement",
                "Enhanced counter workspace" >>) <=> (fired = {})
  /\ fired # {} =>
       /\ Len(list) = 2 * Cardinality(fired)
       /\ \A c \in fired :
            LET r == Cardinality({ d \in fired : d <= c })
            IN  /\ list[2 * r - 1] = C14_Phrases[c][1]
                /\ list[2 * r] = C14_Phrases[c][2]

\* C14: getLayoutOptimization returns the 3-item default exactly when no
\* condition fires, otherwise two phrases per fired condition in the order
\* cooking, entertainer, storage, enhanced; the enhanced variation of a request
\* never has the default list and its primary and value variations have the
\* same list.
C14_LayoutOptimization ==
  /\ (fnInput.fn = "getLayoutOptimization" /\ fnOutput.fn = "getLayoutOptimization") =>
       C14_Describes(fnOutput.result,
                     C14_Fired(fnInput.cooking, fnInput.storage, fnInput.tier))
  /\ ( /\ fnInput.fn = "createDesignVariations"
       /\ fnOutput.fn = "createDesignVariations"
       /\ fnOutput.result.ok ) =>
       LET v == fnOutput.result.v
           p == fnInput.preferences
       IN  /\ v[2].layoutOptimization
                # << "Improved workflow efficiency", "Optimized storage placement",
                     "Enhanced counter workspace" >>
           /\ v[1].layoutOptimization = v[3].layoutOptimization
           /\ C14_Describes(v[1].layoutOptimization,
                            C14_Fired(p.cookingHabits, p.storageNeeds, "primary"))
           /\ C14_Describes(v[2].layoutOptimization,
                            C14_Fired(p.cookingHabits, p.storageNeeds, "enhanced"))

\* C14 witness: all four conditions fire and the list has the eight phrases.
C14_Witness ==
  /\ fnInput.fn = "getLayoutOptimization"
  /\ fnOutput.fn = "getLayoutOptimization"
  /\ C14_Fired(fnInput.cooking, fnInput.storage, fnInput.tier) = 1..4
  /\ Len(fnOutput.result) = 8

\* C14 witness for the variations: a request whose primary and value
\* variations have the default list.
C14_WitnessVariations ==
  /\ fnInput.fn = "createDesignVariations"
  /\ fnOutput.fn = "createDesignVariations"
  /\ fnOutput.result.ok
  /\ Len(fnOutput.result.v[3].layoutOptimization) = 3
  /\ Len(fnOutput.result.v[2].layoutOptimization) = 2

\* The calls of one kind issued so far.
C15_Calls(kind) == { c \in 1..Len(calls) : calls[c].kind = kind }

\* C15: an analyze request issues no synthesis call and at most one vision
\* call, exactly one once it has passed the validation and the dispatch; a
\* generate request issues no vision call; a request that the validation
\* rejects issues no call at all.
C15_CallsPerAction ==
  request.received =>
    /\ ~PassesValidation => calls = << >>
    /\ request.action = "analyze" =>
         /\ C15_Calls("synth") = { }
         /\ Cardinality(C15_Calls("vision")) <= 1
         /\ (PassesValidation /\ pc \in { "awaitVision", "done" }) =>
              Cardinality(C15_Calls("vision")) = 1
    /\ request.action = "generate" => C15_Calls("vision") = { }

\* C15 witness: an analyze request has ended with its one vision call.
C15_Witness ==
  /\ pc = "done"
  /\ request.action = "analyze"
  /\ PassesValidation
  /\ Len(calls) = 1
  /\ calls[1].kind = "vision"

\* C15 witness for the generate path: three synthesis calls and no other.
C15_WitnessGenerate ==
  /\ pc = "done"
  /\ request.action = "generate"
  /\ Cardinality(C15_Calls("synth")) = 3
  /\ Len(calls) = 3

C16_NonImageFields ==
  { "description", "cabinetStyle", "colorPalette", "keyFeatures", "estimatedCost",
    "timeline", "whyThisWorks", "layoutOptimization", "storageFeatures" }

C16_ImageFields == { "imageStatus", "generatedImage", "imagePrompt" }

\* The non-image fields of entry k as a function of the preferences alone.
C16_NonImageOf(preferences, k) ==
  LET v == createDesignVariations(preferences).v[k]
  IN  [ f \in C16_NonImageFields |->
          IF f = "estimatedCost"
          THEN calculateCost(Prop(preferences, "budgetRange"), v.complexity)
          ELSE v[f] ]

\* Entry k of a designs list agrees with the preferences on every non-image
\* field and has, besides these and styleName, image fields only.
C16_EntryFromPreferences(list, k) ==
  /\ C16_NonImageFields \subseteq DOMAIN list[k]
  /\ \A f \in C16_NonImageFields : list[k][f] = C16_NonImageOf(request.preferences, k)[f]
  /\ DOMAIN list[k] \subseteq C16_NonImageFields \cup C16_ImageFields \cup { "styleName" }

\* C16: the non-image fields of every design entry are a function of the
\* request's preferences and the entry's position alone, whatever the
\* synthesis calls returned, so two generate requests with the same
\* preferences and different synthesis outcomes have equal non-image fields
\* position by position; in the response the outcomes reach only imageStatus,
\* generatedImage, imagePrompt, the stats and the message.
C16_NonImageFieldsIgnoreOutcomes ==
  LoopEntered =>
    /\ \A k \in 1..Len(designs) : C16_EntryFromPreferences(designs, k)
    /\ pc = "done" =>
         /\ DOMAIN response.body = { "success", "designs", "stats", "message" }
         /\ response.body.success
         /\ Len(response.body.designs) = Len(designVariations)
         /\ \A k \in 1..Len(response.body.designs) :
              C16_EntryFromPreferences(response.body.designs, k)

\* C16 witness: a response whose three entries come from three different
\* outcomes (a URL, an exception, no URL).
C16_Witness ==
  /\ pc = "done"
  /\ outcomes = << "url", "raise", "nourl" >>
  /\ Len(response.body.designs) = 3
  /\ \A k \in 1..3 : C16_EntryFromPreferences(response.body.designs, k)
  /\ "generatedImage" \in DOMAIN response.body.designs[1]
  /\ "generatedImage" \notin DOMAIN response.body.designs[2]

=============================================================================
